---- MODULE Spec2Model ----
(***************************************************************************)
(* Tools/nano_banana.py: generate_tga(seed_text, output_path, width,       *)
(* height) seeds the process-wide pseudo-random generator from the MD5 of  *)
(* the seed text, picks one of 14 themes by substring tests on the         *)
(* lowercased text, lets the theme colour a width*height*3 byte buffer     *)
(* (stored B,G,R) and writes an 18-byte TGA header followed by the buffer. *)
(*                                                                         *)
(* Texts are TLA+ strings (TLC evaluates Len, SubSeq and \o on them).      *)
(* Library functions the program calls are computed as the library does:   *)
(*   str.encode: the ASCII code of every character;                        *)
(*   hashlib.md5, hexdigest, int(_, 16): MD5 of RFC 1321 on 32-bit words,  *)
(*     its digest as 32 hex characters, and those parsed back to an        *)
(*     integer, held as its 32-bit words, lowest first;                    *)
(*   random.seed, random.randint: the Mersenne Twister MT19937 seeded by   *)
(*     init_by_array, randint by rejection sampling on getrandbits; one    *)
(*     state variable rng is shared by every caller of the random module;  *)
(*   math.sin, math.atan2: fixed-point tables (6 decimals); math.sqrt      *)
(*     comparisons are made on the squares.                                *)
(***************************************************************************)
EXTENDS Integers, Sequences, FiniteSets, TLC

VARIABLES
    pc,          \* position in generate_tga: idle, alloc, dispatch, render, write, done,
                 \* or alloc_raised, raised where an exception ended the call
    seed_text,   \* argument seed_text of the running call
    width,       \* argument width
    height,      \* argument height
    rng,         \* state of the random module's process-wide generator
    rng_entry,   \* rng as it was when the running call was entered
    theme,       \* the theme function the if/elif chain selected
    pixel_data,  \* the bytearray, index i of the code is element i+1
    x,           \* inner loop counter of the theme function
    y,           \* outer loop counter of the theme function
    base,        \* <<r_base, g_base, b_base>> of theme_default
    header,      \* the 18-byte header bytearray
    file,        \* bytes of the file at output_path
    draws,       \* randint calls of the running call, in order: <<lo, hi, value>>
    last,        \* the pixels stored by the latest iteration of the outer loop
    golden,      \* the first completed call: its arguments and its file
    probe        \* a pure function of the program applied to one input, and its result

vars == <<pc, seed_text, width, height, rng, rng_entry, theme, pixel_data,
          x, y, base, header, file, draws, last, golden, probe>>

----------------------------------------------------------------------------
(* Text: characters, str.encode, str.lower, substring test.                *)

Digits == "0123456789"
Upper  == "ABCDEFGHIJKLMNOPQRSTUVWXYZ"
Lower  == "abcdefghijklmnopqrstuvwxyz"

\* The other printable ASCII characters, in code order from 32, 58, 91 and 123.
PunctFrom32  == " !\"#$%&'()*+,-./"
PunctFrom58  == ":;<=>?@"
PunctFrom91  == "[\\]^_"
PunctFrom123 == "{|}~"

IndexIn(c, s) == CHOOSE i \in 1..Len(s) : SubSeq(s, i, i) = c

HasChar(c, s) == \E i \in 1..Len(s) : SubSeq(s, i, i) = c

\* The code point of a one-character string of printable ASCII.
Ord(c) ==
    CASE HasChar(c, Lower) -> 96 + IndexIn(c, Lower)
      [] HasChar(c, Upper) -> 64 + IndexIn(c, Upper)
      [] HasChar(c, Digits) -> 47 + IndexIn(c, Digits)
      [] HasChar(c, PunctFrom32) -> 31 + IndexIn(c, PunctFrom32)
      [] HasChar(c, PunctFrom58) -> 57 + IndexIn(c, PunctFrom58)
      [] HasChar(c, PunctFrom91) -> 90 + IndexIn(c, PunctFrom91)
      [] HasChar(c, PunctFrom123) -> 122 + IndexIn(c, PunctFrom123)

\* seed_text.encode('utf-8') of an ASCII text: one byte per character.
encode(s) == [i \in 1..Len(s) |-> Ord(SubSeq(s, i, i))]

\* str.lower on one ASCII character: A..Z map to a..z, the rest is kept.
LowerChar(c) ==
    IF HasChar(c, Upper) THEN SubSeq(Lower, IndexIn(c, Upper), IndexIn(c, Upper)) ELSE c

\* Mutant of lower: the text is tested as given, not lowercased.
lower_skipped(s) == s

RECURSIVE lower(_)
lower(s) ==
    IF Len(s) = 0 THEN ""
    ELSE LowerChar(SubSeq(s, 1, 1)) \o lower(SubSeq(s, 2, Len(s)))

\* Python's  sub in s  for a non-empty sub.
Contains(sub, s) ==
    \E i \in 1..(Len(s) - Len(sub) + 1) : SubSeq(s, i, i + Len(sub) - 1) = sub

----------------------------------------------------------------------------
(* 32-bit words, held as <<high 16 bits, low 16 bits>>.                    *)

RECURSIVE BitAnd(_, _)
BitAnd(a, b) ==
    IF a = 0 \/ b = 0 THEN 0 ELSE (a % 2) * (b % 2) + 2 * BitAnd(a \div 2, b \div 2)

AndTable == [a \in 0..255 |-> [b \in 0..255 |-> BitAnd(a, b)]]

And16(a, b) == AndTable[a \div 256][b \div 256] * 256 + AndTable[a % 256][b % 256]

Xor16(a, b) == a + b - 2 * And16(a, b)

WordOf(n) == <<n \div 65536, n % 65536>>

And32(a, b) == <<And16(a[1], b[1]), And16(a[2], b[2])>>

Xor32(a, b) == <<Xor16(a[1], b[1]), Xor16(a[2], b[2])>>

Or32(a, b) == <<a[1] + b[1] - And16(a[1], b[1]), a[2] + b[2] - And16(a[2], b[2])>>

Not32(a) == <<65535 - a[1], 65535 - a[2]>>

Add32(a, b) ==
    LET lo == a[2] + b[2]
    IN  <<(a[1] + b[1] + (lo \div 65536)) % 65536, lo % 65536>>

Sub32(a, b) ==
    <<(a[1] - b[1] - (IF a[2] < b[2] THEN 1 ELSE 0)) % 65536, (a[2] - b[2]) % 65536>>

\* a << n and a >> n on 32 bits, 0 <= n <= 31.
Shl32(a, n) ==
    IF n >= 16 THEN <<(a[2] * 2^(n - 16)) % 65536, 0>>
    ELSE <<((a[1] * 2^n) % 65536) + (a[2] \div 2^(16 - n)), (a[2] * 2^n) % 65536>>

Shr32(a, n) ==
    IF n >= 16 THEN <<0, a[1] \div 2^(n - 16)>>
    ELSE <<a[1] \div 2^n, (a[2] \div 2^n) + (a[1] % 2^n) * 2^(16 - n)>>

Rotl32(a, n) == Or32(Shl32(a, n), Shr32(a, 32 - n))

\* (p * q) mod 2^16 for 16-bit p and q.
Mul16(p, q) == ((((p \div 256) * q) % 256) * 256 + (p % 256) * q) % 65536

\* (a * b) mod 2^32.
Mul32(a, b) ==
    LET t == (a[2] % 256) * b[2]
        u == (a[2] \div 256) * b[2]
        l == t + (u % 256) * 256
    IN  <<((l \div 65536) + (u \div 256) + Mul16(a[1], b[2]) + Mul16(a[2], b[1])) % 65536,
          l % 65536>>

\* Op applied for i = lo, lo+1, ..., hi in turn, starting from acc (the first half of the
\* range is evaluated before the second half is entered).
RECURSIVE Iterate(_, _, _, _)
Iterate(Op(_, _), acc, lo, hi) ==
    IF lo > hi THEN acc
    ELSE IF lo = hi THEN Op(acc, lo)
    ELSE LET mid == (lo + hi) \div 2
         IN  CHOOSE r \in {Iterate(Op, l, mid + 1, hi) : l \in {Iterate(Op, acc, lo, mid)}} : TRUE

----------------------------------------------------------------------------
(* hashlib.md5 (RFC 1321).                                                 *)

Md5Shift ==
  <<7, 12, 17, 22, 7, 12, 17, 22, 7, 12, 17, 22, 7, 12, 17, 22,
    5, 9, 14, 20, 5, 9, 14, 20, 5, 9, 14, 20, 5, 9, 14, 20,
    4, 11, 16, 23, 4, 11, 16, 23, 4, 11, 16, 23, 4, 11, 16, 23,
    6, 10, 15, 21, 6, 10, 15, 21, 6, 10, 15, 21, 6, 10, 15, 21>>

Md5Sine ==
  <<<<\hD76A, \hA478>>, <<\hE8C7, \hB756>>, <<\h2420, \h70DB>>, <<\hC1BD, \hCEEE>>,
    <<\hF57C, \h0FAF>>, <<\h4787, \hC62A>>, <<\hA830, \h4613>>, <<\hFD46, \h9501>>,
    <<\h6980, \h98D8>>, <<\h8B44, \hF7AF>>, <<\hFFFF, \h5BB1>>, <<\h895C, \hD7BE>>,
    <<\h6B90, \h1122>>, <<\hFD98, \h7193>>, <<\hA679, \h438E>>, <<\h49B4, \h0821>>,
    <<\hF61E, \h2562>>, <<\hC040, \hB340>>, <<\h265E, \h5A51>>, <<\hE9B6, \hC7AA>>,
    <<\hD62F, \h105D>>, <<\h0244, \h1453>>, <<\hD8A1, \hE681>>, <<\hE7D3, \hFBC8>>,
    <<\h21E1, \hCDE6>>, <<\hC337, \h07D6>>, <<\hF4D5, \h0D87>>, <<\h455A, \h14ED>>,
    <<\hA9E3, \hE905>>, <<\hFCEF, \hA3F8>>, <<\h676F, \h02D9>>, <<\h8D2A, \h4C8A>>,
    <<\hFFFA, \h3942>>, <<\h8771, \hF681>>, <<\h6D9D, \h6122>>, <<\hFDE5, \h380C>>,
    <<\hA4BE, \hEA44>>, <<\h4BDE, \hCFA9>>, <<\hF6BB, \h4B60>>, <<\hBEBF, \hBC70>>,
    <<\h289B, \h7EC6>>, <<\hEAA1, \h27FA>>, <<\hD4EF, \h3085>>, <<\h0488, \h1D05>>,
    <<\hD9D4, \hD039>>, <<\hE6DB, \h99E5>>, <<\h1FA2, \h7CF8>>, <<\hC4AC, \h5665>>,
    <<\hF429, \h2244>>, <<\h432A, \hFF97>>, <<\hAB94, \h23A7>>, <<\hFC93, \hA039>>,
    <<\h655B, \h59C3>>, <<\h8F0C, \hCC92>>, <<\hFFEF, \hF47D>>, <<\h8584, \h5DD1>>,
    <<\h6FA8, \h7E4F>>, <<\hFE2C, \hE6E0>>, <<\hA301, \h4314>>, <<\h4E08, \h11A1>>,
    <<\hF753, \h7E82>>, <<\hBD3A, \hF235>>, <<\h2AD7, \hD2BB>>, <<\hEB86, \hD391>>>>

Md5Start == <<(<<\h6745, \h2301>>), (<<\hEFCD, \hAB89>>), (<<\h98BA, \hDCFE>>), (<<\h1032, \h5476>>)>>

\* The message followed by 0x80, zeros up to 56 mod 64, and its bit length in 8 bytes.
Md5Pad(bytes) ==
    LET n == Len(bytes)
        bits == 8 * n
    IN  bytes \o <<128>> \o [i \in 1..((55 - n) % 64) |-> 0]
            \o <<bits % 256, (bits \div 256) % 256, (bits \div 65536) % 256,
                 (bits \div 16777216) % 256, 0, 0, 0, 0>>

\* The 16 little-endian words of block k (from 0) of the padded message.
Md5Words(padded, k) ==
    [j \in 1..16 |->
        LET o == 64 * k + 4 * (j - 1)
        IN  <<padded[o + 4] * 256 + padded[o + 3], padded[o + 2] * 256 + padded[o + 1]>>]

\* Operation i (from 0) on the state st = <<A, B, C, D>> with the block's words M.
Md5Round(st, M, i) ==
    LET A == st[1]
        B == st[2]
        C == st[3]
        D == st[4]
        F == CASE i < 16 -> Or32(And32(B, C), And32(Not32(B), D))
               [] i >= 16 /\ i < 32 -> Or32(And32(D, B), And32(Not32(D), C))
               [] i >= 32 /\ i < 48 -> Xor32(B, Xor32(C, D))
               [] OTHER -> Xor32(C, Or32(B, Not32(D)))
        g == CASE i < 16 -> i
               [] i >= 16 /\ i < 32 -> (5 * i + 1) % 16
               [] i >= 32 /\ i < 48 -> (3 * i + 5) % 16
               [] OTHER -> (7 * i) % 16
        sum == Add32(Add32(F, A), Add32(Md5Sine[i + 1], M[g + 1]))
    IN  <<D, Add32(B, Rotl32(sum, Md5Shift[i + 1])), B, C>>

Md5Block(st, M) ==
    LET r == Iterate(LAMBDA s, i : Md5Round(s, M, i), st, 0, 63)
    IN  <<Add32(st[1], r[1]), Add32(st[2], r[2]), Add32(st[3], r[3]), Add32(st[4], r[4])>>

\* hashlib.md5(bytes).digest(): the four state words, each low byte first.
md5(bytes) ==
    LET padded == Md5Pad(bytes)
        st == Iterate(LAMBDA s, k : Md5Block(s, Md5Words(padded, k)), Md5Start,
                      0, (Len(padded) \div 64) - 1)
    IN  [i \in 1..16 |->
            LET wd == st[((i - 1) \div 4) + 1]
                b == (i - 1) % 4
            IN  CASE b = 0 -> wd[2] % 256
                  [] b = 1 -> wd[2] \div 256
                  [] b = 2 -> wd[1] % 256
                  [] OTHER -> wd[1] \div 256]

HexDigits == "0123456789abcdef"

\* hasher.hexdigest(): two lowercase hex characters per digest byte.
RECURSIVE hexdigest(_)
hexdigest(digest) ==
    IF digest = <<>> THEN ""
    ELSE SubSeq(HexDigits, (digest[1] \div 16) + 1, (digest[1] \div 16) + 1)
             \o SubSeq(HexDigits, (digest[1] % 16) + 1, (digest[1] % 16) + 1)
             \o hexdigest(Tail(digest))

HexValue(c) == IndexIn(c, HexDigits) - 1

\* int(s, 16) for a string s of lowercase hex characters: the integer as its 32-bit
\* words, lowest first and without high zero words (0 is the empty sequence).
int16(s) ==
    LET padded == [i \in 1..((8 - (Len(s) % 8)) % 8) |-> "0"]
        n == (Len(s) + Len(padded)) \div 8
        \* hex character i (from 1) of the zero-padded string
        hx(i) == IF i <= Len(padded) THEN 0
                 ELSE HexValue(SubSeq(s, i - Len(padded), i - Len(padded)))
        half(i) == hx(i) * 4096 + hx(i + 1) * 256 + hx(i + 2) * 16 + hx(i + 3)
        all == [k \in 1..n |-> <<half(8 * (n - k) + 1), half(8 * (n - k) + 5)>>]
        used == {k \in 1..n : all[k] # <<0, 0>>}
    IN  IF used = {} THEN <<>>
        ELSE SubSeq(all, 1, CHOOSE k \in used : \A m \in used : m <= k)

\* seed_val of generate_tga: int(hashlib.md5(seed_text.encode('utf-8')).hexdigest(), 16)
md5_int(s) == int16(hexdigest(md5(encode(s))))

----------------------------------------------------------------------------
(* The random module: the Mersenne Twister MT19937 of the one process-wide *)
(* generator. Its state is [mt |-> the 624 words, index |-> words used].   *)

MtN == 624

MtM == 397

\* init_genrand(s)
init_genrand(s) ==
    Iterate(LAMBDA mt, i :
                LET prev == mt[i]
                IN  Append(mt, Add32(Mul32(WordOf(1812433253), Xor32(prev, Shr32(prev, 30))),
                                     WordOf(i))),
            <<s>>, 1, MtN - 1)

InitGenrandArray == init_genrand(WordOf(19650218))

\* init_by_array(key): key is the seed's 32-bit words, lowest first.
init_by_array(key) ==
    LET Wrap(mt, i) == IF i >= MtN THEN [mt EXCEPT ![1] = mt[MtN]] ELSE mt
        first ==
            Iterate(LAMBDA a, k :
                        LET prev == a.mt[a.i]
                            nv == Add32(Add32(Xor32(a.mt[a.i + 1],
                                                   Mul32(Xor32(prev, Shr32(prev, 30)),
                                                         WordOf(1664525))),
                                             key[a.j + 1]),
                                       WordOf(a.j))
                            mt1 == [a.mt EXCEPT ![a.i + 1] = nv]
                        IN  [mt |-> Wrap(mt1, a.i + 1),
                             i |-> IF a.i + 1 >= MtN THEN 1 ELSE a.i + 1,
                             j |-> IF a.j + 1 >= Len(key) THEN 0 ELSE a.j + 1],
                    [mt |-> InitGenrandArray, i |-> 1, j |-> 0],
                    1, IF MtN > Len(key) THEN MtN ELSE Len(key))
        second ==
            Iterate(LAMBDA a, k :
                        LET prev == a.mt[a.i]
                            nv == Sub32(Xor32(a.mt[a.i + 1],
                                             Mul32(Xor32(prev, Shr32(prev, 30)),
                                                   WordOf(1566083941))),
                                       WordOf(a.i))
                            mt1 == [a.mt EXCEPT ![a.i + 1] = nv]
                        IN  [mt |-> Wrap(mt1, a.i + 1),
                             i |-> IF a.i + 1 >= MtN THEN 1 ELSE a.i + 1,
                             j |-> a.j],
                    first, 1, MtN - 1)
    IN  [mt |-> [second.mt EXCEPT ![1] = <<\h8000, 0>>], index |-> MtN]

\* The 624 words regenerated in place.
MtTwist(mt) ==
    Iterate(LAMBDA m, kk :
                LET yy == Or32(And32(m[kk + 1], <<\h8000, 0>>),
                               And32(m[((kk + 1) % MtN) + 1], <<\h7FFF, \hFFFF>>))
                    mag == IF yy[2] % 2 = 1 THEN <<\h9908, \hB0DF>> ELSE <<0, 0>>
                IN  [m EXCEPT ![kk + 1] = Xor32(Xor32(m[((kk + MtM) % MtN) + 1], Shr32(yy, 1)),
                                                mag)],
            mt, 0, MtN - 1)

\* The tempering of genrand_uint32: y ^= y >> 11; y ^= (y << 7) & 0x9d2c5680;
\* y ^= (y << 15) & 0xefc60000; y ^= y >> 18.
Temper(y0) ==
    LET S1(v) == Xor32(v, Shr32(v, 11))
        S2(v) == Xor32(v, And32(Shl32(v, 7), <<\h9D2C, \h5680>>))
        S3(v) == Xor32(v, And32(Shl32(v, 15), <<\hEFC6, 0>>))
        S4(v) == Xor32(v, Shr32(v, 18))
    IN  S4(S3(S2(S1(y0))))

\* genrand_uint32(): the next 32-bit word and the state after it.
genrand_uint32(g) ==
    LET Take(mt, at) == [word |-> Temper(mt[at + 1]), rng |-> [mt |-> mt, index |-> at + 1]]
    IN  IF g.index >= MtN THEN Take(MtTwist(g.mt), 0) ELSE Take(g.mt, g.index)

\* getrandbits(k) for 1 <= k <= 16: the top k bits of the next word.
getrandbits(g, k) ==
    LET Top(d) == [value |-> Shr32(d.word, 32 - k)[2], rng |-> d.rng]
    IN  Top(genrand_uint32(g))

RECURSIVE bit_length(_)
bit_length(n) == IF n = 0 THEN 0 ELSE 1 + bit_length(n \div 2)

\* Random._randbelow_with_getrandbits(n): draws of bit_length(n) bits until one is below n.
RECURSIVE randbelow(_, _)
randbelow(g, n) ==
    LET Retry(d) == IF d.value >= n THEN randbelow(d.rng, n) ELSE d
    IN  Retry(getrandbits(g, bit_length(n)))

\* random.randint(a, b) with the generator in state g: the value and the state after it.
randint(g, a, b) ==
    LET Offset(d) == [value |-> a + d.value, rng |-> d.rng]
    IN  Offset(randbelow(g, b + 1 - a))

\* Mutant of random_seed: the generator is left in the state it was in.
random_seed_skipped(seed_val) == rng

\* random.seed(seed_val) for a non-negative int given as its 32-bit words, lowest
\* first: init_by_array on those words (on the one word 0 for seed_val = 0).
random_seed(seed_val) == init_by_array(IF seed_val = <<>> THEN <<(<<0, 0>>)>> ELSE seed_val)

----------------------------------------------------------------------------
(* Theme selection: the if/elif chain of generate_tga.                     *)

AnyIn(triggers, s) == \E t \in triggers : Contains(t, s)

SelectTheme(lower_seed) ==
    IF Contains("tiktok", lower_seed) THEN "tiktok"
    ELSE IF Contains("file-city", lower_seed) \/ Contains("file city", lower_seed) THEN "file_city"
    ELSE IF Contains("pokemon", lower_seed) THEN "pokemon"
    ELSE IF Contains("msg", lower_seed) \/ Contains("chat", lower_seed) THEN "imessage"
    ELSE IF Contains("rust", lower_seed) THEN "rust"
    ELSE IF Contains("python", lower_seed) THEN "python"
    ELSE IF Contains("ios", lower_seed) \/ Contains("app", lower_seed) THEN "ios"
    ELSE IF AnyIn({"ai", "bot", "gpt", "intelligence", "model"}, lower_seed) THEN "ai"
    ELSE IF AnyIn({"bank", "money", "finance", "gold", "cash", "price", "card", "calc", "budget"},
                  lower_seed) THEN "finance"
    ELSE IF AnyIn({"real", "estate", "house", "mortgage", "rent", "landlord", "zillow"},
                  lower_seed) THEN "real_estate"
    ELSE IF AnyIn({"audio", "voice", "sound", "speech", "say", "dtmf", "mouth"},
                  lower_seed) THEN "audio"
    ELSE IF AnyIn({"camera", "photo", "image", "video", "face", "glitch"},
                  lower_seed) THEN "camera"
    ELSE IF AnyIn({"web", "chrome", "browser", "link", "site", "scrape"},
                  lower_seed) THEN "web"
    ELSE "default"

----------------------------------------------------------------------------
(* Arithmetic helpers and the math library.                                *)

\* Mutant of clamp: the value is returned unclamped.
clamp_missing(val, min_val, max_val) == val

clamp(val, min_val, max_val) ==
    LET m == IF max_val < val THEN max_val ELSE val
    IN  IF min_val > m THEN min_val ELSE m

Abs(v) == IF v < 0 THEN -v ELSE v

\* v held within lo..hi, to keep scaled products inside 32 bits.
Confine(v, lo, hi) == IF v < lo THEN lo ELSE IF v > hi THEN hi ELSE v

Sq(v) == v * v

\* math.sin(k/10.0) for k = 0..257, times 10^6, at index k+1.
SinTenTable ==
    <<0, 99833, 198669, 295520, 389418, 479426, 564642, 644218, 717356, 783327,
      841471, 891207, 932039, 963558, 985450, 997495, 999574, 991665, 973848, 946300,
      909297, 863209, 808496, 745705, 675463, 598472, 515501, 427380, 334988, 239249,
      141120, 41581, -58374, -157746, -255541, -350783, -442520, -529836, -611858, -687766,
      -756802, -818277, -871576, -916166, -951602, -977530, -993691, -999923, -996165, -982453,
      -958924, -925815, -883455, -832267, -772764, -705540, -631267, -550686, -464602, -373877,
      -279415, -182163, -83089, 16814, 116549, 215120, 311541, 404850, 494113, 578440,
      656987, 728969, 793668, 850437, 898708, 938000, 967920, 988168, 998543, 998941,
      989358, 969890, 940731, 902172, 854599, 798487, 734397, 662969, 584917, 501021,
      412118, 319098, 222890, 124454, 24775, -75151, -174327, -271761, -366479, -457536,
      -544021, -625071, -699875, -767686, -827826, -879696, -922775, -956635, -980936, -995436,
      -999990, -994553, -979178, -954019, -919329, -875452, -822829, -761984, -693525, -618137,
      -536573, -449647, -358229, -263232, -165604, -66322, 33623, 133232, 231510, 327474,
      420167, 508661, 592074, 669570, 740376, 803784, 859162, 905955, 943696, 972008,
      990607, 999309, 998027, 986772, 965658, 934895, 894791, 845747, 788252, 722881,
      650288, 571197, 486399, 396741, 303118, 206467, 107754, 7963, -91907, -190859,
      -287903, -382071, -472422, -558052, -638107, -711785, -778352, -837142, -887567, -929124,
      -961397, -984065, -996900, -999774, -992659, -975626, -948844, -912582, -867202, -813157,
      -750987, -681314, -604833, -522309, -434566, -342481, -246974, -148999, -49536, 50423,
      149877, 247834, 343315, 435365, 523066, 605540, 681964, 751573, 813674, 867644,
      912945, 949125, 975821, 992766, 999793, 996830, 983907, 961153, 928795, 887158,
      836656, 777794, 711161, 637423, 557315, 471639, 381250, 287053, 189987, 91022,
      -8851, -108637, -207336, -303965, -397556, -487175, -571926, -650962, -723495, -788798,
      -846220, -895187, -935210, -965888, -986916, -998082, -999276, -990486, -971798, -943401,
      -905578, -858707, -803256, -739779, -668910, -591358, -507897, -419361, -326635, -230646,
      -132352, -32735, 67208, 166480, 264089, 359058, 450441, 537322>>

\* math.sin(k/20.0) for k = 0..257, times 10^6, at index k+1.
SinTwentyTable ==
    <<0, 49979, 99833, 149438, 198669, 247404, 295520, 342898, 389418, 434966,
      479426, 522687, 564642, 605186, 644218, 681639, 717356, 751280, 783327, 813416,
      841471, 867423, 891207, 912764, 932039, 948985, 963558, 975723, 985450, 992713,
      997495, 999784, 999574, 996865, 991665, 983986, 973848, 961275, 946300, 928960,
      909297, 887362, 863209, 836899, 808496, 778073, 745705, 711473, 675463, 637765,
      598472, 557684, 515501, 472031, 427380, 381661, 334988, 287478, 239249, 190423,
      141120, 91465, 41581, -8407, -58374, -108195, -157746, -206902, -255541, -303542,
      -350783, -397148, -442520, -486787, -529836, -571561, -611858, -650625, -687766, -723188,
      -756802, -788525, -818277, -845984, -871576, -894989, -916166, -935053, -951602, -965773,
      -977530, -986844, -993691, -998054, -999923, -999293, -996165, -990547, -982453, -971903,
      -958924, -943549, -925815, -905767, -883455, -858934, -832267, -803520, -772764, -740077,
      -705540, -669240, -631267, -591716, -550686, -508279, -464602, -419764, -373877, -327055,
      -279415, -231078, -182163, -132792, -83089, -33179, 16814, 66765, 116549, 166042,
      215120, 263660, 311541, 358644, 404850, 450044, 494113, 536948, 578440, 618486,
      656987, 693845, 728969, 762271, 793668, 823081, 850437, 875667, 898708, 919503,
      938000, 954152, 967920, 979268, 988168, 994599, 998543, 999992, 998941, 995394,
      989358, 980850, 969890, 956506, 940731, 922604, 902172, 879484, 854599, 827577,
      798487, 767401, 734397, 699557, 662969, 624724, 584917, 543648, 501021, 457141,
      412118, 366066, 319098, 271333, 222890, 173889, 124454, 74708, 24775, -25219,
      -75151, -124895, -174327, -223323, -271761, -319519, -366479, -412523, -457536, -501405,
      -544021, -585277, -625071, -663302, -699875, -734698, -767686, -798754, -827826, -854829,
      -879696, -902363, -922775, -940881, -956635, -969998, -980936, -989423, -995436, -998962,
      -999990, -998519, -994553, -988100, -979178, -967808, -954019, -937846, -919329, -898513,
      -875452, -850203, -822829, -793398, -761984, -728665, -693525, -656652, -618137, -578077,
      -536573, -493727, -449647, -404444, -358229, -311119, -263232, -214686, -165604, -116108,
      -66322, -16370, 33623, 83532, 133232, 182599, 231510, 279842>>

\* math.sin(k/50.0) for k = 0..257, times 10^6, at index k+1.
SinFiftyTable ==
    <<0, 19999, 39989, 59964, 79915, 99833, 119712, 139543, 159318, 179030,
      198669, 218230, 237703, 257081, 276356, 295520, 314567, 333487, 352274, 370920,
      389418, 407760, 425939, 443948, 461779, 479426, 496880, 514136, 531186, 548024,
      564642, 581035, 597195, 613117, 628793, 644218, 659385, 674288, 688921, 703279,
      717356, 731146, 744643, 757843, 770739, 783327, 795602, 807558, 819192, 830497,
      841471, 852108, 862404, 872355, 881958, 891207, 900100, 908633, 916803, 924606,
      932039, 939099, 945784, 952090, 958016, 963558, 968715, 973485, 977865, 981854,
      985450, 988652, 991458, 993868, 995881, 997495, 998710, 999526, 999942, 999958,
      999574, 998790, 997606, 996024, 994043, 991665, 988890, 985719, 982154, 978197,
      973848, 969109, 963983, 958471, 952576, 946300, 939645, 932615, 925212, 917438,
      909297, 900793, 891929, 882707, 873133, 863209, 852940, 842330, 831383, 820104,
      808496, 796565, 784316, 771753, 758881, 745705, 732231, 718465, 704411, 690075,
      675463, 660581, 645435, 630031, 614374, 598472, 582331, 565956, 549355, 532535,
      515501, 498262, 480823, 463191, 445375, 427380, 409214, 390885, 372399, 353764,
      334988, 316078, 297041, 277886, 258619, 239249, 219784, 200230, 180596, 160890,
      141120, 121293, 101418, 81502, 61554, 41581, 21591, 1593, -18406, -38398,
      -58374, -78327, -98249, -118131, -137966, -157746, -177462, -197108, -216675, -236155,
      -255541, -274825, -293998, -313054, -331985, -350783, -369441, -387951, -406306, -424498,
      -442520, -460366, -478027, -495497, -512769, -529836, -546691, -563327, -579738, -595917,
      -611858, -627554, -642999, -658186, -673111, -687766, -702146, -716246, -730058, -743579,
      -756802, -769723, -782336, -794636, -806618, -818277, -829609, -840609, -851273, -861597,
      -871576, -881206, -890484, -899405, -907967, -916166, -923998, -931461, -938551, -945266,
      -951602, -957558, -963131, -968319, -973119, -977530, -981550, -985178, -988411, -991249,
      -993691, -995735, -997381, -998628, -999476, -999923, -999971, -999619, -998867, -997715,
      -996165, -994216, -991869, -989125, -985986, -982453, -978526, -974208, -969501, -964405,
      -958924, -953060, -946814, -940189, -933189, -925815, -918070, -909959>>

\* cos(j/6) for j = 1..18, times 10^6: the directions at which int(angle*6) steps.
CosSixthTable ==
    <<986143, 944957, 877583, 785887, 672412, 540302, 393219, 235238, 70737, -95724,
      -259531, -416147, -561229, -690758, -801144, -889327, -952863, -989992>>

\* sin(j/6) for j = 1..18, times 10^6.
SinSixthTable ==
    <<165896, 327195, 479426, 618370, 740177, 841471, 919445, 971938, 997495, 995408,
      965735, 909297, 827660, 723086, 598472, 457273, 303400, 141120>>

SinTen(k) == SinTenTable[k + 1]

SinTwenty(k) == SinTwentyTable[k + 1]

SinFifty(k) == SinFiftyTable[k + 1]

\* |a| * |b| / 10^6 for two fixed-point values, computed in 32-bit pieces.
FixMul(a, b) ==
    LET a1 == Abs(a) \div 1000
        b1 == Abs(a) % 1000
        a2 == Abs(b) \div 1000
        b2 == Abs(b) % 1000
    IN  a1 * a2 + ((a1 * b2 + a2 * b1 + ((b1 * b2) \div 1000)) \div 1000)

\* Magnitude of int(math.atan2(dy, dx) * 6) for dy = dy2/2, dx = dx2/2: the number of
\* directions j/6 (j = 1..18) that the vector (dx, |dy|) has reached; atan2(0, 0) = 0.
\* int() truncates towards zero and Python's % 2 of -k is that of k, so the parity
\* tested by theme_camera is the parity of this magnitude.
AngleSixths(dx2, dy2) ==
    IF dx2 = 0 /\ dy2 = 0 THEN 0
    ELSE Cardinality({j \in 1..18 :
            CosSixthTable[j] * Abs(dy2) - SinSixthTable[j] * dx2 >= 0})

----------------------------------------------------------------------------
(* The theme functions: the body of each theme's pixel loop, as the        *)
(* <<r, g, b>> it stores for pixel (px, py) of a w x h image.              *)

shape(sx, sy) ==
    LET nx == sx + 40
        ny == sy + 40
    IN  \/ Sq(nx - 40) + Sq(ny - 160) < Sq(30)
        \/ (60 < nx /\ nx < 80 /\ 40 < ny /\ ny < 160)

\* cur is the <<r, g, b>> read back from the buffer (the fill loop stored 20, 20, 20).
theme_tiktok(px, py, w, h, cur) ==
    LET cx == px - (w \div 2)
        cy == py - (h \div 2)
        b1 == IF shape(cx + 5, cy) THEN 255 ELSE cur[3]
        g1 == IF shape(cx + 5, cy) THEN 255 ELSE cur[2]
        r1 == IF shape(cx - 5, cy) THEN 255 ELSE cur[1]
        g2 == IF shape(cx, cy) /\ r1 = 255 /\ b1 = 255 THEN 255 ELSE g1
    IN  <<r1, g2, b1>>

\* nx = px/w and ny = py/h are compared with decimal constants: cross-multiplied.
theme_file_city(px, py, w, h) ==
    IF w < 10 * px /\ 10 * px < 9 * w /\ h < 10 * py /\ 10 * py < 9 * h
    THEN IF w < 4 * px /\ 4 * px < 3 * w /\ h < 10 * py /\ 5 * py < 2 * h
         THEN IF 3 * w < 10 * px /\ 20 * px < 9 * w /\ 3 * h < 20 * py /\ 20 * py < 7 * h
              THEN <<40, 40, 40>>
              ELSE <<180, 180, 190>>
         ELSE IF w < 5 * px /\ 5 * px < 4 * w /\ 11 * h < 20 * py /\ 10 * py < 9 * h
              THEN <<240, 240, 240>>
              ELSE <<80, 80, 220>>
    ELSE <<50, 100, 200>>

\* Mutant of theme_pokemon: without the white button inside the black centre disc.
theme_pokemon_no_button(px, py, w, h) ==
    LET dx == px - (w \div 2)
        dy == py - (h \div 2)
        dist2 == dx * dx + dy * dy
    IN  IF dist2 < Sq(110)
        THEN IF dist2 < Sq(30) THEN <<20, 20, 20>>
             ELSE IF dy < -10 THEN <<220, 40, 40>>
                  ELSE IF dy > 10 THEN <<240, 240, 240>>
                  ELSE <<20, 20, 20>>
        ELSE <<200, 200, 200>>

theme_pokemon(px, py, w, h) ==
    LET dx == px - (w \div 2)
        dy == py - (h \div 2)
        dist2 == dx * dx + dy * dy
    IN  IF dist2 < Sq(110)
        THEN IF dist2 < Sq(30)
             THEN IF dist2 < Sq(20) THEN <<255, 255, 255>> ELSE <<20, 20, 20>>
             ELSE IF dy < -10 THEN <<220, 40, 40>>
                  ELSE IF dy > 10 THEN <<240, 240, 240>>
                  ELSE <<20, 20, 20>>
        ELSE <<200, 200, 200>>

\* int(120 + (py / h) * 50) = 120 + floor(50 * py / h).
theme_imessage(px, py, w, h) ==
    LET dx == px - (w \div 2)
        dy == py - (h \div 2)
    IN  IF 160 < px /\ px < 190 /\ 150 < py /\ py < 180 /\ px - 160 < 180 - py
        THEN <<0, 120, 255>>
        ELSE IF Abs(dx) < 80 /\ Abs(dy) < 50
             THEN <<0, 120 + ((50 * py) \div h), 255>>
             ELSE <<255, 255, 255>>

\* Mutant of RustInside: the circle includes its boundary (distance <= 80).
RustInsideInclusive(px, py, w, h) ==
    LET dx == px - (w \div 2)
        dy == py - (h \div 2)
    IN  dx * dx + dy * dy <= Sq(80)

\* j1, j2: the two random.randint(0, 50) values, drawn only inside the circle.
RustInside(px, py, w, h) ==
    LET dx == px - (w \div 2)
        dy == py - (h \div 2)
    IN  dx * dx + dy * dy < Sq(80)

\* Mutant of RustDarkened: every other 40-column band is darkened.
RustDarkenedHalfBands(px) == (px \div 40) % 2 = 1

RustDarkened(px) == px % 40 > 30

theme_rust(px, py, w, h, j1, j2) ==
    IF RustInside(px, py, w, h)
    THEN IF RustDarkened(px)
         THEN <<180 + j1 - 40, 90 + j2 - 20, 40>>
         ELSE <<180 + j1, 90 + j2, 40>>
    ELSE <<40, 40, 40>>

\* sinx = math.sin(py / 20.0) * 20.0; both tests multiplied by 3 * 10^6.
theme_python(px, py, w, h) ==
    LET s == SinTwenty(py)
    IN  IF Abs((3 * px - 2 * w) * 1000000 - 60 * s) < 45 * 1000000 THEN <<220, 200, 50>>
        ELSE IF Abs((3 * px - w) * 1000000 + 60 * s) < 45 * 1000000 THEN <<50, 100, 200>>
        ELSE <<50, 50, 50>>

theme_ios(px, py, w, h) ==
    LET gx == px % 64
        gy == py % 64
    IN  IF 10 < gx /\ gx < 54 /\ 10 < gy /\ gy < 54
        THEN <<(px * 5) % 255, (py * 5) % 255, 200>>
        ELSE <<240, 240, 240>>

theme_ai(px, py, w, h) ==
    IF px % 60 = 0 /\ py % 60 = 0 THEN <<100, 255, 100>>
    ELSE IF px % 30 = 0 \/ py % 30 = 0 THEN <<0, 150, 0>>
    ELSE <<0, 20, 0>>

\* chart_y = h - (px/w)*(h*0.8) - 20 + sin(px/10.0)*20. With
\* d = 5*w*(py - h + 20) + 4*px*h, py - chart_y = (d - 100*w*sin(px/10.0)) / (5*w);
\* |100*w*sin| <= 100*w, so d is confined to +-111*w before it is scaled.
theme_finance(px, py, w, h) ==
    LET d == 5 * w * (py - h + 20) + 4 * px * h
        e == Confine(d, -111 * w, 111 * w) * 10000 - w * SinTen(px)
    IN  IF Abs(e) < w * 100000 THEN <<0, 180, 0>>
        ELSE IF e > 0 THEN <<200, 250, 200>>
        ELSE <<240, 255, 240>>

theme_real_estate(px, py, w, h) ==
    LET brick == IF ((px \div 20) + (py \div 10)) % 2 = 0
                 THEN <<180 - 20, 80 - 10, 60>>
                 ELSE <<180, 80, 60>>
    IN  IF 3 * py < h /\ 2 * py > Abs(2 * px - w) THEN <<80, 40, 30>> ELSE brick

\* amp = sin(px/10.0) * sin(px/50.0) * (h/3); |py - h/2| < |amp| multiplied by 6 * 10^6.
theme_audio(px, py, w, h) ==
    LET q == FixMul(SinTen(px), SinFifty(px))
    IN  IF 3 * Abs(2 * py - h) * 1000000 < 2 * h * q
        THEN <<100, 200, 255>>
        ELSE <<20, 20, 30>>

\* dx = px - w/2 and dy = py - h/2 are halves: all lengths are doubled.
theme_camera(px, py, w, h) ==
    LET dx2 == 2 * px - w
        dy2 == 2 * py - h
        dist2 == dx2 * dx2 + dy2 * dy2
    IN  IF dist2 < Sq(2 * 100)
        THEN IF dist2 < Sq(2 * 40) THEN <<20, 0, 80>>
             ELSE IF AngleSixths(dx2, dy2) % 2 = 0 THEN <<40, 40, 40>>
             ELSE <<20, 20, 20>>
        ELSE <<50, 50, 50>>

theme_web(px, py, w, h) ==
    IF py < 40
    THEN IF px > 200 THEN <<255, 100, 100>> ELSE <<220, 220, 220>>
    ELSE IF px % 30 = 0 \/ py % 30 = 0 THEN <<200, 200, 255>>
    ELSE <<255, 255, 255>>

DefaultChannel(c_base, check, noise) ==
    clamp(c_base + (IF check # 0 THEN 40 ELSE 0) + noise, 0, 255)

\* Mutant of theme_default: the window colour is given in B,G,R order.
theme_default_window_bgr(px, py, r_base, g_base, b_base, noise) ==
    LET check == ((px \div 32) + (py \div 32)) % 2
        wx == px % 32
        wy == py % 32
    IN  IF 10 < wx /\ wx < 22 /\ 10 < wy /\ wy < 22
        THEN <<200, 255, 255>>
        ELSE <<DefaultChannel(r_base, check, noise),
               DefaultChannel(g_base, check, noise),
               DefaultChannel(b_base, check, noise)>>

theme_default(px, py, r_base, g_base, b_base, noise) ==
    LET scale == 32
        check == ((px \div scale) + (py \div scale)) % 2
        wx == px % 32
        wy == py % 32
    IN  IF 10 < wx /\ wx < 22 /\ 10 < wy /\ wy < 22
        THEN <<255, 255, 200>>
        ELSE <<DefaultChannel(r_base, check, noise),
               DefaultChannel(g_base, check, noise),
               DefaultChannel(b_base, check, noise)>>

----------------------------------------------------------------------------
(* The pixel loops of the theme functions.                                 *)

Themes == {"tiktok", "file_city", "pokemon", "imessage", "rust", "python", "ios", "ai",
           "finance", "real_estate", "audio", "camera", "web", "default"}

\* One iteration of the selected theme's inner loop at (px, py) with the generator in
\* state g and cur = <<r, g, b>> read from the buffer: the colour, the generator state
\* after the iteration's randint calls, and those calls in order.
PixelStep(th, px, py, w, h, bs, cur, g) ==
    IF th = "rust" /\ RustInside(px, py, w, h)
    THEN LET Red(d1) ==
                 LET Green(d2) ==
                         [rgb |-> theme_rust(px, py, w, h, d1.value, d2.value),
                          rng |-> d2.rng,
                          drawn |-> <<(<<0, 50, d1.value>>), (<<0, 50, d2.value>>)>>]
                 IN  Green(randint(d1.rng, 0, 50))
         IN  Red(randint(g, 0, 50))
    ELSE IF th = "default"
    THEN LET Noise(d) ==
                 [rgb |-> theme_default(px, py, bs[1], bs[2], bs[3], d.value),
                  rng |-> d.rng,
                  drawn |-> <<(<<-20, 20, d.value>>)>>]
         IN  Noise(randint(g, -20, 20))
    ELSE [rgb |-> CASE th = "tiktok" -> theme_tiktok(px, py, w, h, cur)
                    [] th = "file_city" -> theme_file_city(px, py, w, h)
                    [] th = "pokemon" -> theme_pokemon(px, py, w, h)
                    [] th = "imessage" -> theme_imessage(px, py, w, h)
                    [] th = "rust" -> theme_rust(px, py, w, h, 0, 0)
                    [] th = "python" -> theme_python(px, py, w, h)
                    [] th = "ios" -> theme_ios(px, py, w, h)
                    [] th = "ai" -> theme_ai(px, py, w, h)
                    [] th = "finance" -> theme_finance(px, py, w, h)
                    [] th = "real_estate" -> theme_real_estate(px, py, w, h)
                    [] th = "audio" -> theme_audio(px, py, w, h)
                    [] th = "camera" -> theme_camera(px, py, w, h)
                    [] th = "web" -> theme_web(px, py, w, h),
          rng |-> g,
          drawn |-> <<>>]

\* What a theme function does before its pixel loop: theme_default draws r_base, g_base,
\* b_base; the others draw nothing.
ThemeEntry(th, g) ==
    IF th = "default"
    THEN LET First(r_base) ==
                 LET Second(g_base) ==
                         LET Third(b_base) ==
                                 [base |-> <<r_base.value, g_base.value, b_base.value>>,
                                  rng |-> b_base.rng,
                                  drawn |-> <<(<<50, 200, r_base.value>>),
                                              (<<50, 200, g_base.value>>),
                                              (<<50, 200, b_base.value>>)>>]
                         IN  Third(randint(g_base.rng, 50, 200))
                 IN  Second(randint(r_base.rng, 50, 200))
         IN  First(randint(g, 50, 200))
    ELSE [base |-> <<0, 0, 0>>, rng |-> g, drawn |-> <<>>]

\* theme_tiktok's first loop: every byte of the buffer becomes 20.
TiktokFill(pixels) == [i \in 1..Len(pixels) |-> 20]

IsByte(b) == b \in 0..255

\* Mutant of PixelIndex: column-major, (px * w + py) * 3.
PixelIndexTransposed(px, py, w) == (px * w + py) * 3

\* idx = (py * w + px) * 3 of the code.
PixelIndex(px, py, w) == (py * w + px) * 3

\* A bytearray index: in range, or negative and counted from the end.
IndexOk(pixels, i) == i >= -Len(pixels) /\ i < Len(pixels)

Position(pixels, i) == (IF i < 0 THEN i + Len(pixels) ELSE i) + 1

\* r, g, b = pixels[idx+2], pixels[idx+1], pixels[idx]
LoadPixel(pixels, idx) ==
    <<pixels[Position(pixels, idx + 2)], pixels[Position(pixels, idx + 1)],
      pixels[Position(pixels, idx)]>>

\* The stores of one iteration succeed: indices inside the bytearray, values bytes.
StoreOk(pixels, idx, rgb) ==
    /\ \A k \in 0..2 : IndexOk(pixels, idx + k)
    /\ \A c \in 1..3 : IsByte(rgb[c])

\* The inner loop  for x in range(w)  of row py, with the generator in state g: the
\* pixels coloured, in order, as [x, y, rgb, drawn]; the loop stops at a pixel whose
\* read (tiktok) or stores fail, which is then the last of recs and ok is FALSE.
\* tiktok reads the pixel it is about to store, which no earlier iteration has stored.
RowPixels(th, py, w, h, bs, pixels, g) ==
    Iterate(LAMBDA a, px :
                IF ~a.ok THEN a
                ELSE LET idx == PixelIndex(px, py, w)
                         cur == IF th = "tiktok" /\ \A k \in 0..2 : IndexOk(pixels, idx + k)
                                THEN LoadPixel(pixels, idx)
                                ELSE <<0, 0, 0>>
                         Store(p) ==
                             [rng |-> p.rng,
                              recs |-> Append(a.recs, [x |-> px, y |-> py, rgb |-> p.rgb,
                                                       drawn |-> p.drawn]),
                              drawn |-> a.drawn \o p.drawn,
                              ok |-> StoreOk(pixels, idx, p.rgb)]
                     IN  Store(PixelStep(th, px, py, w, h, bs, cur, a.rng)),
            [rng |-> g, recs |-> <<>>, drawn |-> <<>>, ok |-> TRUE],
            0, w - 1)

\* pixels[idx] = b; pixels[idx+1] = g; pixels[idx+2] = r  of the pixels recs, as
\* <<index, value>> in the order the stores are made.
StoreList(recs, w) ==
    [i \in 1..(3 * Len(recs)) |->
        LET p == recs[((i - 1) \div 3) + 1]
            k == (i - 1) % 3
        IN  <<PixelIndex(p.x, p.y, w) + k, p.rgb[3 - k]>>]

\* The stores made before the first one that fails. Stores at consecutive indices
\* replace one slice of the buffer.
ApplyStores(pixels, stores) ==
    LET bad == {i \in 1..Len(stores) : ~IndexOk(pixels, stores[i][1]) \/ ~IsByte(stores[i][2])}
        n == IF bad = {} THEN Len(stores) ELSE (CHOOSE i \in bad : \A m \in bad : i <= m) - 1
    IN  IF n = 0 THEN pixels
        ELSE IF stores[1][1] >= 0 /\ \A i \in 1..n : stores[i][1] = stores[1][1] + i - 1
        THEN SubSeq(pixels, 1, stores[1][1]) \o [i \in 1..n |-> stores[i][2]]
                 \o SubSeq(pixels, stores[1][1] + n + 1, Len(pixels))
        ELSE Iterate(LAMBDA p, i : [p EXCEPT ![Position(p, stores[i][1])] = stores[i][2]],
                     pixels, 1, n)

\* for y in range(h): the outer loop has no iteration left.
LoopDone(py, h) == py >= h

\* Mutant of BuildHeaderBytes: width and height stored high byte first.
BuildHeaderBytesBigEndian(w, h) ==
    [i \in 1..18 |->
        CASE i = 2 + 1 -> 2
          [] i = 12 + 1 -> (w \div 256) % 256
          [] i = 13 + 1 -> w % 256
          [] i = 14 + 1 -> (h \div 256) % 256
          [] i = 15 + 1 -> h % 256
          [] i = 16 + 1 -> 24
          [] OTHER -> 0]

\* The 18-byte TGA header.
BuildHeaderBytes(w, h) ==
    [i \in 1..18 |->
        CASE i = 2 + 1 -> 2
          [] i = 12 + 1 -> w % 256
          [] i = 13 + 1 -> (w \div 256) % 256
          [] i = 14 + 1 -> h % 256
          [] i = 15 + 1 -> (h \div 256) % 256
          [] i = 16 + 1 -> 24
          [] i = 17 + 1 -> 0
          [] OTHER -> 0]

----------------------------------------------------------------------------
(* Inputs.                                                                 *)

DefaultSize == 256

SmallW == 3

SmallH == 2

\* The narrowest one-row image with pixels outside theme_rust's circle of radius 80.
ThinWidth == 161

ScanDim == 64

WindowDim == 32

\* The side of a small default-theme image that has a window pixel, (11, 11).
ProbeDim == 12

\* Seed texts of the two themes that draw random values and of three that do not.
MainTexts == {"tiktok", "rust", "python", "web", "zzz"}

\* <<seed_text, width, height>> of the calls made one after another in one process:
\* small images, a row crossing theme_rust's circle, a default-theme image with a
\* window pixel, images without pixels, and negative sizes.
Inputs ==
    {<<t, SmallW, SmallH>> : t \in MainTexts}
        \cup {<<"rust", ThinWidth, 1>>, <<"zzz", ProbeDim, ProbeDim>>, <<"zzz", 0, SmallH>>,
              <<"web", SmallW, 0>>, <<"web", -1, 1>>, <<"web", -1, -1>>}

\* <<seed_text, width, height>> of the single calls followed row by row: every theme
\* on a square image and on a low image of the default width, theme_default on images
\* of whole windows, and the sizes without pixels.
ScanInputs ==
    {<<t, ScanDim, ScanDim>> :
        t \in {"tiktok", "file city", "pokemon", "chat", "rust", "python", "ios", "ai",
               "bank", "house", "voice", "camera", "web", "zzz"}}
    \cup {<<t, DefaultSize, SmallH>> :
        t \in {"tiktok", "file city", "pokemon", "chat", "rust", "python", "ios", "ai",
               "bank", "house", "voice", "camera", "web", "zzz"}}
    \cup {<<"rust", ThinWidth, SmallH + 1>>,
          <<"zzz", WindowDim, WindowDim>>, <<"zzz_unmatched_seed_123", ScanDim, WindowDim>>,
          <<"zzz12", ScanDim, WindowDim>>}
    \cup {<<"zzz", 0, SmallH>>, <<"web", SmallW, 0>>, <<"web", -1, 1>>, <<"web", -1, -1>>}

\* random.seed(seed_val) of lines 12-14 for every seed text of Inputs and ScanInputs,
\* computed once per text.
SeedTable ==
    [t \in {in[1] : in \in Inputs \cup ScanInputs} |-> random_seed(md5_int(t))]

MaxEntrySeed == 1

\* The generator as the process may have left it before the first call: what
\* random.seed(k) does for a small k, init_by_array on the one word k.
EntryStates == {init_by_array(<<WordOf(k)>>) : k \in 0..MaxEntrySeed}

FirstEntry == init_by_array(<<WordOf(0)>>)

NoRun == [seed_text |-> "", width |-> -1, height |-> -1, file |-> <<>>]

NoProbe == [kind |-> "none"]

----------------------------------------------------------------------------
(* generate_tga, step by step.                                             *)

Init ==
    /\ pc = "idle"
    /\ seed_text = ""
    /\ width = 0
    /\ height = 0
    /\ rng \in EntryStates
    /\ rng_entry = rng
    /\ theme = "none"
    /\ pixel_data = <<>>
    /\ x = 0
    /\ y = 0
    /\ base = <<0, 0, 0>>
    /\ header = <<>>
    /\ file = <<>>
    /\ draws = <<>>
    /\ last = <<>>
    /\ golden = NoRun
    /\ probe = NoProbe

\* Lines 10-14: the call is entered and the process-wide generator is seeded. The file
\* at output_path is not touched before line 60.
Call ==
    /\ pc = "idle"
    /\ \E in \in Inputs :
        /\ seed_text' = in[1]
        /\ width' = in[2]
        /\ height' = in[3]
        /\ rng' = SeedTable[in[1]]
    /\ rng_entry' = rng
    /\ pc' = "alloc"
    /\ theme' = "none"
    /\ pixel_data' = <<>>
    /\ x' = 0
    /\ y' = 0
    /\ base' = <<0, 0, 0>>
    /\ header' = <<>>
    /\ draws' = <<>>
    /\ last' = <<>>
    /\ UNCHANGED <<file, golden, probe>>

\* Line 16: pixel_data = bytearray(width * height * 3); a negative count raises
\* ValueError and the call ends there.
Alloc ==
    /\ pc = "alloc"
    /\ IF width * height * 3 < 0
       THEN /\ pc' = "alloc_raised"
            /\ UNCHANGED pixel_data
       ELSE /\ pc' = "dispatch"
            /\ pixel_data' = [i \in 1..(width * height * 3) |-> 0]
    /\ UNCHANGED <<seed_text, width, height, rng, rng_entry, theme, x, y, base, header,
                   file, draws, last, golden, probe>>

\* Lines 18-48: the theme is selected and its function runs up to its pixel loop.
Dispatch ==
    /\ pc = "dispatch"
    /\ \E th \in {SelectTheme(lower(seed_text))} : \E e \in {ThemeEntry(th, rng)} :
           /\ theme' = th
           /\ base' = e.base
           /\ rng' = e.rng
           /\ draws' = draws \o e.drawn
           /\ pixel_data' = IF th = "tiktok" THEN TiktokFill(pixel_data) ELSE pixel_data
    /\ x' = 0
    /\ y' = 0
    /\ pc' = "render"
    /\ UNCHANGED <<seed_text, width, height, rng_entry, header, file, last, golden, probe>>

\* One iteration of the theme's outer loop  for y in range(h): the whole inner loop over
\* x. A failing read or store raises and leaves the loops at that pixel.
RenderRow ==
    /\ pc = "render"
    /\ ~LoopDone(y, height)
    /\ \E row \in {RowPixels(theme, y, width, height, base, pixel_data, rng)} :
           /\ rng' = row.rng
           /\ draws' = draws \o row.drawn
           /\ last' = row.recs
           /\ pixel_data' = ApplyStores(pixel_data, StoreList(row.recs, width))
           /\ IF row.ok
              THEN /\ x' = 0
                   /\ y' = y + 1
                   /\ pc' = "render"
              ELSE /\ x' = row.recs[Len(row.recs)].x
                   /\ y' = y
                   /\ pc' = "raised"
    /\ UNCHANGED <<seed_text, width, height, rng_entry, theme, base, header, file, golden, probe>>

\* Lines 50-58: the theme function has returned; the header is built.
BuildHeader ==
    /\ pc = "render"
    /\ LoopDone(y, height)
    /\ header' = BuildHeaderBytes(width, height)
    /\ pc' = "write"
    /\ UNCHANGED <<seed_text, width, height, rng, rng_entry, theme, pixel_data, x, y, base,
                   file, draws, last, golden, probe>>

\* Lines 60-62: open(output_path, 'wb'); f.write(header); f.write(pixel_data)
WriteFile ==
    /\ pc = "write"
    /\ file' = header \o pixel_data
    /\ pc' = "done"
    /\ UNCHANGED <<seed_text, width, height, rng, rng_entry, theme, pixel_data, x, y, base,
                   header, draws, last, golden, probe>>

\* Line 64: generate_tga returns and its locals are gone; the file stays on disk, and
\* the first completed call is remembered.
Return ==
    /\ pc = "done"
    /\ pc' = "idle"
    /\ golden' = IF golden = NoRun
                 THEN [seed_text |-> seed_text, width |-> width, height |-> height,
                       file |-> file]
                 ELSE golden
    /\ seed_text' = ""
    /\ width' = 0
    /\ height' = 0
    /\ rng_entry' = rng
    /\ theme' = "none"
    /\ pixel_data' = <<>>
    /\ x' = 0
    /\ y' = 0
    /\ base' = <<0, 0, 0>>
    /\ header' = <<>>
    /\ draws' = <<>>
    /\ last' = <<>>
    /\ UNCHANGED <<rng, file, probe>>

Next ==
    \/ Call
    \/ Alloc
    \/ Dispatch
    \/ RenderRow
    \/ BuildHeader
    \/ WriteFile
    \/ Return

Spec == Init /\ [][Next]_vars

----------------------------------------------------------------------------
(* Theme selection alone: Dispatch on many seed texts.                     *)

\* One trigger of each of the 13 themes that have triggers.
PairWords ==
    {"tiktok", "file-city", "pokemon", "msg", "rust", "python", "app", "bot", "budget",
     "rent", "say", "face", "link"}

\* Every such trigger alone and every two of them joined, in both orders; every trigger
\* of the code; texts in mixed case, triggers inside longer words, broken triggers.
ThemeTexts ==
    {p \o q : p \in PairWords \cup {""}, q \in PairWords \cup {""}}
        \cup {"tiktok", "file-city", "file city", "pokemon", "msg", "chat", "rust", "python",
              "ios", "app", "ai", "bot", "gpt", "intelligence", "model", "bank", "money",
              "finance", "gold", "cash", "price", "card", "calc", "budget", "real", "estate",
              "house", "mortgage", "rent", "landlord", "zillow", "audio", "voice", "sound",
              "speech", "say", "dtmf", "mouth", "camera", "photo", "image", "video", "face",
              "glitch", "web", "chrome", "browser", "link", "site", "scrape"}
        \cup {"MyTikTok Clone", "Rusty App", "budget calculator", "zzz_unmatched_seed_123",
              "POKEMON", "File City", "filecity", "file  city", "I O S", "Trust me", "happy",
              "x", "RuST", "cha t", "A I", "zz", "Pay-Pal [v2]"}

\* generate_tga(seed_text, output_path, 0, 0), entered with the generator as
\* random.seed(0) left it, about to run its if/elif chain at line 18.
InitTheme ==
    /\ pc = "dispatch"
    /\ seed_text \in ThemeTexts
    /\ width = 0
    /\ height = 0
    /\ rng = random_seed(md5_int(seed_text))
    /\ rng_entry = FirstEntry
    /\ theme = "none"
    /\ pixel_data = <<>>
    /\ x = 0
    /\ y = 0
    /\ base = <<0, 0, 0>>
    /\ header = <<>>
    /\ file = <<>>
    /\ draws = <<>>
    /\ last = <<>>
    /\ golden = NoRun
    /\ probe = NoProbe

NextTheme == Dispatch

SpecTheme == InitTheme /\ [][NextTheme]_vars

----------------------------------------------------------------------------
(* Pure functions of the program applied to single inputs. The program is  *)
(* idle; probe holds the input and the result.                             *)

MaxDim16 == 65535

\* The process after import, before any call, with the generator as random.seed(0)
\* leaves it.
InitProbe ==
    /\ pc = "idle"
    /\ seed_text = ""
    /\ width = 0
    /\ height = 0
    /\ rng = FirstEntry
    /\ rng_entry = FirstEntry
    /\ theme = "none"
    /\ pixel_data = <<>>
    /\ x = 0
    /\ y = 0
    /\ base = <<0, 0, 0>>
    /\ header = <<>>
    /\ file = <<>>
    /\ draws = <<>>
    /\ last = <<>>
    /\ golden = NoRun
    /\ probe = NoProbe

\* The sizes tried with every 16-bit size in the other dimension.
HeaderEdges == {0, DefaultSize, MaxDim16}

\* Lines 51-58 applied to one width and height: every 16-bit width with the heights
\* of HeaderEdges, and every 16-bit height with the widths of HeaderEdges.
ProbeHeader ==
    /\ pc = "idle"
    /\ probe = NoProbe
    /\ \E a \in 0..MaxDim16 : \E b \in HeaderEdges : \E size \in {<<a, b>>, <<b, a>>} :
           probe' = [kind |-> "header", width |-> size[1], height |-> size[2],
                     header |-> BuildHeaderBytes(size[1], size[2])]
    /\ UNCHANGED <<pc, seed_text, width, height, rng, rng_entry, theme, pixel_data, x, y,
                   base, header, file, draws, last, golden>>

NextHeader == ProbeHeader

SpecHeader == InitProbe /\ [][NextHeader]_vars

\* The seed texts whose theme is probed pixel by pixel at the default size.
ProbeTexts == {"pokemon"}

\* The theme that lines 18-48 select for a seed text, applied to one pixel of a
\* 256 x 256 image, with the three stores of that pixel. The themes probed draw
\* nothing and read nothing from the buffer.
ProbeColour ==
    /\ pc = "idle"
    /\ probe = NoProbe
    /\ \E t \in ProbeTexts : \E px \in 0..(DefaultSize - 1) : \E py \in 0..(DefaultSize - 1) :
           \E th \in {SelectTheme(lower(t))} :
               \E p \in {PixelStep(th, px, py, DefaultSize, DefaultSize, <<0, 0, 0>>,
                                   <<0, 0, 0>>, SeedTable[t])} :
                   /\ th \notin {"tiktok", "rust", "default"}
                   /\ probe' = [kind |-> "colour", seed_text |-> t, theme |-> th,
                                width |-> DefaultSize, height |-> DefaultSize,
                                x |-> px, y |-> py, rgb |-> p.rgb,
                                stores |-> StoreList(<<[x |-> px, y |-> py, rgb |-> p.rgb,
                                                        drawn |-> p.drawn]>>,
                                                     DefaultSize)]
    /\ UNCHANGED <<pc, seed_text, width, height, rng, rng_entry, theme, pixel_data, x, y,
                   base, header, file, draws, last, golden>>

NextColour == ProbeColour

SpecColour == InitProbe /\ [][NextColour]_vars

----------------------------------------------------------------------------
(* One call, row by row: generate_tga(in) for in of ScanInputs, from line  *)
(* 16 to the written file.                                                 *)

\* generate_tga(in) entered with the generator as random.seed(0) left it; lines 10-14
\* have seeded the generator.
InitImage ==
    \E in \in ScanInputs :
        /\ pc = "alloc"
        /\ seed_text = in[1]
        /\ width = in[2]
        /\ height = in[3]
        /\ rng = SeedTable[in[1]]
        /\ rng_entry = FirstEntry
        /\ theme = "none"
        /\ pixel_data = <<>>
        /\ x = 0
        /\ y = 0
        /\ base = <<0, 0, 0>>
        /\ header = <<>>
        /\ file = <<>>
        /\ draws = <<>>
        /\ last = <<>>
        /\ golden = NoRun
        /\ probe = NoProbe
    /\ probe = NoProbe

NextImage ==
    \/ Alloc
    \/ Dispatch
    \/ RenderRow
    \/ BuildHeader
    \/ WriteFile

SpecImage == InitImage /\ [][NextImage]_vars

----------------------------------------------------------------------------
(* Properties.                                                             *)

\* The priority table of the theme selection: order, theme, trigger substrings.
ThemeTable ==
    <<(<<"tiktok", {"tiktok"}>>),
      (<<"file_city", {"file-city", "file city"}>>),
      (<<"pokemon", {"pokemon"}>>),
      (<<"imessage", {"msg", "chat"}>>),
      (<<"rust", {"rust"}>>),
      (<<"python", {"python"}>>),
      (<<"ios", {"ios", "app"}>>),
      (<<"ai", {"ai", "bot", "gpt", "intelligence", "model"}>>),
      (<<"finance", {"bank", "money", "finance", "gold", "cash", "price", "card", "calc",
                     "budget"}>>),
      (<<"real_estate", {"real", "estate", "house", "mortgage", "rent", "landlord",
                         "zillow"}>>),
      (<<"audio", {"audio", "voice", "sound", "speech", "say", "dtmf", "mouth"}>>),
      (<<"camera", {"camera", "photo", "image", "video", "face", "glitch"}>>),
      (<<"web", {"web", "chrome", "browser", "link", "site", "scrape"}>>)>>

\* t occurs in s: s is some prefix, then t, then some suffix.
Occurs(t, s) ==
    \E a \in 0..Len(s) :
        /\ a + Len(t) <= Len(s)
        /\ \A k \in 1..Len(t) : SubSeq(s, a + k, a + k) = SubSeq(t, k, k)

Triggered(i, s) == \E t \in ThemeTable[i][2] : Occurs(t, s)

TableTheme(s) ==
    IF \E i \in 1..Len(ThemeTable) : Triggered(i, s)
    THEN LET first == CHOOSE i \in 1..Len(ThemeTable) :
                          /\ Triggered(i, s)
                          /\ \A k \in 1..(i - 1) : ~Triggered(k, s)
         IN  ThemeTable[first][1]
    ELSE "default"

\* Pixels the loops have completed: y rows of width pixels.
Completed == IF width > 0 THEN y * width ELSE 0

InCircle80(i, w, h) ==
    LET px == i % w
        py == i \div w
    IN  Sq(px - (w \div 2)) + Sq(py - (h \div 2)) < 6400

\* The three buffer bytes of pixel (px, py), in the order stored.
BufferPixel(px, py) ==
    <<pixel_data[(py * width + px) * 3 + 1], pixel_data[(py * width + px) * 3 + 2],
      pixel_data[(py * width + px) * 3 + 3]>>

SameRunAsGolden ==
    /\ golden # NoRun
    /\ golden.seed_text = seed_text
    /\ golden.width = width
    /\ golden.height = height

\* C1: a completed call given the arguments of the first completed call has written a
\* file byte-identical to that call's, whatever the generator state was when either
\* call was entered.
C1_Determinism == (pc = "done" /\ SameRunAsGolden) => file = golden.file

\* C1 witness: a second run of a theme that draws random values, entered with the
\* generator in a state other than the one the seed gives.
C1_Witness ==
    /\ pc = "done"
    /\ SameRunAsGolden
    /\ theme \in {"rust", "default"}
    /\ Len(draws) > 0
    /\ rng_entry # SeedTable[seed_text]
    /\ Len(file) > 18

\* C2: the theme selected is the first theme of the priority table with a trigger
\* occurring in the lowercased seed text, default when there is none, and always one
\* of the 14 themes; the spec's examples select the themes it names.
C2_ThemeSelection ==
    pc = "render" =>
        /\ theme \in Themes
        /\ theme = TableTheme(lower(seed_text))
        /\ (theme = "default") = (\A i \in 1..Len(ThemeTable) : ~Triggered(i, lower(seed_text)))
        /\ seed_text = "Rusty App" => theme = "rust"
        /\ seed_text = "MyTikTok Clone" => theme = "tiktok"
        /\ seed_text = "budget calculator" => theme = "finance"
        /\ seed_text = "POKEMON" => theme = "pokemon"
        /\ seed_text = "Trust me" => theme = "rust"
        /\ seed_text = "zzz_unmatched_seed_123" => theme = "default"

\* C2 witness: "Rusty App", which holds both "rust" and "app", has selected rust.
C2_Witness == pc = "render" /\ seed_text = "Rusty App" /\ theme = "rust"

\* C3: the buffer has width*height*3 bytes from allocation to write, no read or store
\* of a theme fails, each pixel's colour is stored B,G,R at (y*width + x)*3, and the
\* file is the 18-byte header followed by the buffer, so that file byte
\* 18 + (y*width + x)*3 + c is channel c of pixel (x, y).
C3_BufferSize ==
    /\ pc # "raised"
    /\ pc \in {"dispatch", "render", "write", "done"} => Len(pixel_data) = width * height * 3
    /\ pc = "render" =>
           \A i \in 1..Len(last) : \A c \in 0..2 :
               pixel_data[(last[i].y * width + last[i].x) * 3 + c + 1] = last[i].rgb[3 - c]
    /\ pc = "done" =>
           /\ Len(file) = 18 + width * height * 3
           /\ Len(header) = 18
           /\ \A i \in 1..18 : file[i] = header[i]
           /\ \A i \in 1..Len(pixel_data) : file[18 + i] = pixel_data[i]
           /\ theme \notin {"rust", "default"} =>
                  \A px \in 0..(width - 1) : \A py \in 0..(height - 1) :
                      \E p \in {PixelStep(theme, px, py, width, height, base, <<20, 20, 20>>,
                                          rng).rgb} :
                          /\ file[18 + (py * width + px) * 3 + 0 + 1] = p[3]
                          /\ file[18 + (py * width + px) * 3 + 1 + 1] = p[2]
                          /\ file[18 + (py * width + px) * 3 + 2 + 1] = p[1]

\* C3 witness: a tiktok image (fill loop, then pixel loop) has been written.
C3_Witness ==
    /\ pc = "done"
    /\ theme = "tiktok"
    /\ width * height > 0
    /\ Len(file) = 18 + width * height * 3

\* C4: the header built for width and height in 0..65535 has 18 bytes; byte 2 is 2,
\* byte 16 is 24, bytes 12-13 and 14-15 decode (little-endian) to width and height,
\* every other byte is 0; for 256 x 256 bytes 12-15 are 00 01 00 01.
C4_Header ==
    probe.kind = "header" =>
        /\ Len(probe.header) = 18
        /\ \A i \in 1..18 : IsByte(probe.header[i])
        /\ probe.header[2 + 1] = 2
        /\ probe.header[16 + 1] = 24
        /\ probe.header[12 + 1] + 256 * probe.header[13 + 1] = probe.width
        /\ probe.header[14 + 1] + 256 * probe.header[15 + 1] = probe.height
        /\ \A i \in (0..11 \cup {17}) \ {2} : probe.header[i + 1] = 0
        /\ (probe.width = 256 /\ probe.height = 256) =>
               <<probe.header[13], probe.header[14], probe.header[15], probe.header[16]>>
                   = <<0, 1, 0, 1>>

\* C4 witness: the header of a 256 x 256 image has been built.
C4_Witness ==
    /\ probe.kind = "header"
    /\ probe.width = 256
    /\ probe.height = 256
    /\ Len(probe.header) = 18

\* The outer loop has row y to colour.
AtRow == pc = "render" /\ ~LoopDone(y, height)

JitterRange == 0..50

BaseRange == 50..200

NoiseRange == -20..20

\* C5: every channel a theme stores for an in-bounds pixel is in 0..255 and no store
\* fails: for the pixels of the row just coloured, with the values drawn, and for rust
\* and default at every pixel of the row about to be coloured, with every value the
\* draws can return (rust's red and green each depend on one jitter; default's
\* channels are the window colour or one base, 40 or 0, and the noise, clamped).
C5_ChannelRange ==
    /\ pc # "raised"
    /\ pc = "render" =>
           \A i \in 1..Len(last) :
               /\ \A c \in 1..3 : IsByte(last[i].rgb[c])
               /\ \A c \in 1..3 : IsByte(BufferPixel(last[i].x, last[i].y)[c])
    /\ (AtRow /\ theme = "rust") =>
           \A px \in 0..(width - 1) : \A j \in JitterRange :
               LET p == theme_rust(px, y, width, height, j, j)
               IN  IsByte(p[1]) /\ IsByte(p[2]) /\ IsByte(p[3])
    /\ (AtRow /\ theme = "default") =>
           /\ \A px \in 0..(width - 1) : \A b \in {50, 200} : \A n \in {-20, 20} :
                  LET p == theme_default(px, y, b, b, b, n)
                  IN  IsByte(p[1]) /\ IsByte(p[2]) /\ IsByte(p[3])
           /\ \A b \in BaseRange : \A n \in NoiseRange : \A check \in {0, 1} :
                  IsByte(DefaultChannel(b, check, n))

\* C5 witness: default has stored a channel that the clamp cut down to 255 (its base
\* plus 40 plus the noise is above 255).
C5_Witness ==
    /\ pc = "render"
    /\ theme = "default"
    /\ \E i \in 1..Len(last) : \E c \in 1..3 :
           /\ last[i].rgb[c] = 255
           /\ base[c] + 40 + last[i].drawn[1][3] > 255
           /\ BufferPixel(last[i].x, last[i].y)[4 - c] = 255

InWindow(px, py) == 10 < px % 32 /\ px % 32 < 22 /\ 10 < py % 32 /\ py % 32 < 22

Untriggered(s) == \A i \in 1..Len(ThemeTable) : ~Triggered(i, s)

\* C6: a seed text without any trigger runs the default theme, and every pixel with
\* 10 < x mod 32 < 22 and 10 < y mod 32 < 22, pixel (15,15) among them, is stored as
\* bytes (200,255,255) in B,G,R order, in the buffer and in the file, whatever the base
\* and noise draws are.
C6_FallbackWindow ==
    (Untriggered(lower(seed_text)) /\ pc \in {"render", "write", "done"}) =>
        /\ theme = "default"
        /\ pc = "render" =>
               \A i \in 1..Len(last) :
                   InWindow(last[i].x, last[i].y) =>
                       /\ last[i].rgb = <<255, 255, 200>>
                       /\ BufferPixel(last[i].x, last[i].y) = <<200, 255, 255>>
        /\ (pc = "render" /\ y > 15 /\ width > 15) => BufferPixel(15, 15) = <<200, 255, 255>>
        /\ (pc = "done" /\ height > 15 /\ width > 15) =>
               \A c \in 0..2 : file[18 + (15 * width + 15) * 3 + c + 1] = <<200, 255, 255>>[c + 1]
        /\ AtRow =>
               \A px \in 0..(width - 1) :
                   InWindow(px, y) =>
                       \A b \in BaseRange : \A n \in NoiseRange :
                           /\ theme_default(px, y, b, b, b, n) = <<255, 255, 200>>
                           /\ theme_default(px, y, b, 250 - b, 50, n) = <<255, 255, 200>>

\* C6 witness: the image for "zzz_unmatched_seed_123", at least 32 x 32, has been
\* written with the window colour at pixel (15,15).
C6_Witness ==
    /\ seed_text = "zzz_unmatched_seed_123"
    /\ theme = "default"
    /\ width >= 32
    /\ height >= 32
    /\ pc = "done"
    /\ BufferPixel(15, 15) = <<200, 255, 255>>

\* The pixel probed is (px, py) of the image for "pokemon" at the default size.
PokemonAt(px, py) ==
    /\ probe.kind = "colour"
    /\ probe.seed_text = "pokemon"
    /\ probe.width = DefaultSize
    /\ probe.height = DefaultSize
    /\ probe.x = px
    /\ probe.y = py

\* The pixel probed is stored as colour rgb: blue, green, red at (y*width + x)*3 + 0, 1, 2.
ProbeStoredAs(rgb) ==
    /\ probe.rgb = rgb
    /\ probe.stores = <<(<<(probe.y * probe.width + probe.x) * 3, rgb[3]>>),
                        (<<(probe.y * probe.width + probe.x) * 3 + 1, rgb[2]>>),
                        (<<(probe.y * probe.width + probe.x) * 3 + 2, rgb[1]>>)>>

\* C7 as stated: for "pokemon" at 256 x 256 the centre pixel (128,128) is stored black
\* (20,20,20) and pixel (128,113) white (255,255,255).
C7_Original ==
    /\ PokemonAt(128, 128) => ProbeStoredAs(<<20, 20, 20>>)
    /\ PokemonAt(128, 113) => ProbeStoredAs(<<255, 255, 255>>)

\* C7 amended: the centre pixel (128,128), at distance 0 < 20, is stored white
\* (255,255,255) like (128,113); the black (20,20,20) pixels are those at distance in
\* [20,30) and those at distance in [30,110) with |dy| <= 10, such as (153,128) and
\* (178,128).
C7_PokemonScenario ==
    (probe.kind = "colour" /\ probe.seed_text = "pokemon") =>
        /\ probe.theme = "pokemon"
        /\ ProbeStoredAs(probe.rgb)
        /\ PokemonAt(128, 128) => ProbeStoredAs(<<255, 255, 255>>)
        /\ PokemonAt(128, 113) => ProbeStoredAs(<<255, 255, 255>>)
        /\ PokemonAt(153, 128) => ProbeStoredAs(<<20, 20, 20>>)
        /\ PokemonAt(178, 128) => ProbeStoredAs(<<20, 20, 20>>)
        /\ LET d2 == Sq(probe.x - 128) + Sq(probe.y - 128)
           IN  (probe.rgb = <<20, 20, 20>>) =
                   \/ (400 <= d2 /\ d2 < 900)
                   \/ (900 <= d2 /\ d2 < 12100 /\ Abs(probe.y - 128) <= 10)

\* C7 witness: the centre pixel of the pokemon image has been probed and is white.
C7_Witness == PokemonAt(128, 128) /\ ProbeStoredAs(<<255, 255, 255>>)

\* C9: after seeding, default draws r_base, g_base, b_base in [50,200] before its loop
\* and one noise in [-20,20] per completed pixel, row by row (3 + width*height in all);
\* rust draws two jitters in [0,50], red then green, for each completed pixel inside
\* the radius-80 circle and none outside it; the other 12 themes draw nothing and
\* leave the generator as seeded.
C9_DrawOrder ==
    pc \in {"render", "write", "done"} =>
        /\ theme = "default" =>
               /\ Len(draws) = 3 + Completed
               /\ \A i \in 1..3 :
                      draws[i][1] = 50 /\ draws[i][2] = 200 /\ draws[i][3] \in BaseRange
               /\ base = <<draws[1][3], draws[2][3], draws[3][3]>>
               /\ \A i \in 4..Len(draws) :
                      draws[i][1] = -20 /\ draws[i][2] = 20 /\ draws[i][3] \in NoiseRange
               /\ (pc = "done" /\ width >= 0 /\ height >= 0) => Len(draws) = 3 + width * height
               /\ \A i \in 1..Len(last) :
                      /\ last[i].x = i - 1
                      /\ last[i].drawn = <<draws[3 + last[i].y * width + last[i].x + 1]>>
                      /\ InWindow(last[i].x, last[i].y) =>
                             /\ last[i].rgb = <<255, 255, 200>>
                             /\ Len(last[i].drawn) = 1
        /\ theme = "rust" =>
               /\ Len(draws)
                      = 2 * Cardinality({i \in 0..(Completed - 1) : InCircle80(i, width, height)})
               /\ \A i \in 1..Len(draws) :
                      draws[i][1] = 0 /\ draws[i][2] = 50 /\ draws[i][3] \in JitterRange
               /\ \A i \in 1..Len(last) :
                      LET before == Cardinality({k \in 1..(i - 1) : last[k].drawn # <<>>})
                          inrow == Cardinality({k \in 1..Len(last) : last[k].drawn # <<>>})
                          at == Len(draws) - 2 * inrow + 2 * before
                      IN  IF InCircle80(last[i].y * width + last[i].x, width, height)
                          THEN /\ last[i].drawn = <<draws[at + 1], draws[at + 2]>>
                               /\ last[i].rgb[1]
                                      \in {180 + last[i].drawn[1][3], 140 + last[i].drawn[1][3]}
                               /\ last[i].rgb[2]
                                      \in {90 + last[i].drawn[2][3], 70 + last[i].drawn[2][3]}
                          ELSE last[i].drawn = <<>>
        /\ theme \notin {"default", "rust"} =>
               /\ draws = <<>>
               /\ rng = SeedTable[seed_text]
               /\ \A i \in 1..Len(last) : last[i].drawn = <<>>

\* C9 witness: default has coloured a row with a pixel that the window colour
\* overrides, and the noise draw of that pixel is in the log at its row-major place,
\* after the 3 base draws.
C9_Witness ==
    /\ pc = "render"
    /\ theme = "default"
    /\ Len(draws) = 3 + y * width
    /\ \E i \in 1..Len(last) :
           /\ InWindow(last[i].x, last[i].y)
           /\ last[i].rgb = <<255, 255, 200>>
           /\ last[i].drawn = <<draws[3 + last[i].y * width + last[i].x + 1]>>
           /\ last[i].drawn[1][3] \in NoiseRange

\* C10 as stated: a jittered pixel's column lies in a band of 40 consecutive columns
\* that are all darkened, or all left undarkened, like it.
C10_Original ==
    (theme = "rust" /\ pc = "render") =>
        \A i \in 1..Len(last) :
            Len(last[i].drawn) = 2 =>
                LET dark == last[i].rgb[1] = 180 + last[i].drawn[1][3] - 40
                IN  \E a \in (last[i].x - 39)..last[i].x :
                        \A c \in a..(a + 39) : c >= 0 => RustDarkened(c) = dark

\* C10 amended: a pixel is inside exactly when its distance from (width div 2,
\* height div 2) is below 80; outside it is (40,40,40); inside, blue is 40, red is
\* 180 + jitter and green 90 + jitter with jitters in [0,50], and red - 40, green - 20
\* is applied exactly on the columns with x mod 40 > 30: bands 9 columns wide
\* (x mod 40 in 31..39) that repeat every 40 columns, with 31 undarkened columns between.
C10_RustColouring ==
    (theme = "rust" /\ pc = "render") =>
        \A i \in 1..Len(last) :
            /\ BufferPixel(last[i].x, last[i].y)
                   = <<last[i].rgb[3], last[i].rgb[2], last[i].rgb[1]>>
            /\ IF Sq(last[i].x - (width \div 2)) + Sq(last[i].y - (height \div 2)) < 6400
               THEN /\ Len(last[i].drawn) = 2
                    /\ last[i].drawn[1][3] \in JitterRange
                    /\ last[i].drawn[2][3] \in JitterRange
                    /\ last[i].rgb[3] = 40
                    /\ IF last[i].x % 40 \in 31..39
                       THEN /\ last[i].rgb[1] = 180 + last[i].drawn[1][3] - 40
                            /\ last[i].rgb[2] = 90 + last[i].drawn[2][3] - 20
                       ELSE /\ last[i].rgb[1] = 180 + last[i].drawn[1][3]
                            /\ last[i].rgb[2] = 90 + last[i].drawn[2][3]
               ELSE /\ last[i].rgb = <<40, 40, 40>>
                    /\ last[i].drawn = <<>>

\* C10 witness: a darkened pixel inside the circle, in a column whose index divided
\* by 40 is even (column 31..39 of that band), beside an undarkened jittered pixel.
C10_Witness ==
    /\ theme = "rust"
    /\ pc = "render"
    /\ \E i \in 1..Len(last) :
           /\ Len(last[i].drawn) = 2
           /\ last[i].x % 40 > 30
           /\ (last[i].x \div 40) % 2 = 0
           /\ last[i].rgb[1] = 180 + last[i].drawn[1][3] - 40
           /\ last[i].rgb[3] = 40
    /\ \E i \in 1..Len(last) :
           /\ Len(last[i].drawn) = 2
           /\ last[i].rgb[1] = 180 + last[i].drawn[1][3]

\* C8 as stated: the process-wide generator is, when generate_tga returns, in the
\* state it was in when the call was entered.
C8_GeneratorUntouched == pc = "done" => rng = rng_entry

====
